---- MODULE Spec2Model ----
(***************************************************************************)
(* A model of the prism-did account ledger: the Account state machine      *)
(* (crates/common/src/account.rs), the Operation and Transaction envelope  *)
(* (operation.rs, transaction.rs), the DID derivation and the staged       *)
(* request builder (builder.rs).                                           *)
(***************************************************************************)
EXTENDS Integers, Sequences, FiniteSets, TLC

VARIABLES account, pc, tx, result, before, n_accepted, log,
          stage, builder, via, err, posted, call, pending

\* The account and the caller of process_transaction.
ledger_vars == <<account, pc, tx, result, before, n_accepted, log>>

\* The request builder: the stage it is in, the fields of that stage's
\* struct, the stage transition that opened the signing stage, and the error
\* a stage method returned.
builder_vars == <<stage, builder, via, err>>

\* posted is the sequence of the transactions handed to
\* PrismApi::post_transaction; call is the latest call of a conversion or
\* validation function with its argument and result; pending is the caller
\* of PendingTransaction::wait.
vars == <<account, pc, tx, result, before, n_accepted, log,
          stage, builder, via, err, posted, call, pending>>

(***************************************************************************)
(* Bounds of the model.                                                    *)
(***************************************************************************)
\* Number of distinct key pairs (SigningKey / VerifyingKey) in the universe.
NumKeys == 2
\* process_transaction is explored while the account nonce is below this.
MaxNonce == 3
\* with_also_known_as is explored while the builder holds fewer aliases.
MaxAliases == 1

(***************************************************************************)
(* Keys and signatures (prism_keys, an external capability): a signature   *)
(* is the pair of the key that made it and the exact bytes it was made     *)
(* over; it verifies under a key and a message iff both agree.             *)
(***************************************************************************)
Keys == 1 .. NumKeys

verifying_key(sk) == sk

sign(sk, bytes) == [signer |-> verifying_key(sk), msg |-> bytes]

vk_verify_signature(vk, message, signature) ==
    signature.signer = vk /\ signature.msg = message

\* VerifyingKey::to_did: the did:key string of a key.
to_did(k) == "did:key:z" \o ToString(k)

\* Signature::to_plc_signature: the unpadded url-safe base64 text of the
\* signature bytes; the text of two signatures agrees iff their bytes do.
to_plc_signature(sig) == <<"b64url", sig.signer, sig.msg>>

(***************************************************************************)
(* Account, Service, Operation                                             *)
(***************************************************************************)
EmptyMap == [x \in {} |-> x]

new_pds(endpoint) ==
    [service_type |-> "AtprotoPersonalDataServer", endpoint |-> endpoint]

\* Account::default()
DefaultAccount ==
    [did |-> "", nonce |-> 0, verification_methods |-> EmptyMap,
     rotation_keys |-> <<>>, also_known_as |-> <<>>, services |-> EmptyMap]

CreateAccountOp(id, key) == [type |-> "CreateAccount", id |-> id, key |-> key]

AddKeyOp(key) == [type |-> "AddKey", key |-> key]

RevokeKeyOp(key) == [type |-> "RevokeKey", key |-> key]

CreateDIDOp(did, vms, rks, aka, pds, sig) ==
    [type |-> "CreateDID", did |-> did, verification_methods |-> vms,
     rotation_keys |-> rks, also_known_as |-> aka, atproto_pds |-> pds,
     signature |-> sig]

contains(seq, k) == \E i \in 1 .. Len(seq) : seq[i] = k

MaxVerificationMethods == 10

\* validate_basic with the limit on verification methods taken exclusive.
validate_basic_limit_exclusive(op) ==
    CASE op.type = "CreateAccount" ->
            IF op.id = "" THEN "EmptyAccountId" ELSE "Ok"
      [] op.type = "CreateDID" ->
            IF Cardinality(DOMAIN op.verification_methods)
                    >= MaxVerificationMethods
            THEN "DataTooLarge"
            ELSE IF op.rotation_keys = <<>> THEN "EmptyAccountId"
            ELSE "Ok"
      [] op.type \in {"AddKey", "RevokeKey"} -> "Ok"

\* Operation::validate_basic
validate_basic(op) ==
    CASE op.type = "CreateAccount" ->
            IF op.id = "" THEN "EmptyAccountId" ELSE "Ok"
      [] op.type = "CreateDID" ->
            IF Cardinality(DOMAIN op.verification_methods)
                    > MaxVerificationMethods
            THEN "DataTooLarge"
            ELSE IF op.rotation_keys = <<>> THEN "EmptyAccountId"
            ELSE "Ok"
      [] op.type \in {"AddKey", "RevokeKey"} -> "Ok"

\* retain with the predicate inverted: keeps the key, drops the others.
retain_eq(seq, key) == SelectSeq(seq, LAMBDA k : k = key)

\* A removal of the first matching entry only.
retain_first_removed(seq, key) ==
    LET hits == {i \in 1 .. Len(seq) : seq[i] = key}
    IN  IF hits = {} THEN seq
        ELSE LET first == CHOOSE i \in hits : \A j \in hits : i <= j
             IN  SubSeq(seq, 1, first - 1) \o SubSeq(seq, first + 1, Len(seq))

\* Vec::retain(|k| k != key)
retain_ne(seq, key) == SelectSeq(seq, LAMBDA k : k # key)

(***************************************************************************)
(* Interop encoding and DID derivation (operation.rs)                      *)
(***************************************************************************)
\* impl TryFrom<&Operation> for SignedPLCOp, for a CreateDID operation: keys
\* become did:key strings, the PDS endpoint is wrapped into the service map
\* and the signature is carried as its base64url text.
SignedPLCOp(op) ==
    [type_ |-> "plc_operation",
     rotation_keys |->
        [i \in 1 .. Len(op.rotation_keys) |-> to_did(op.rotation_keys[i])],
     verification_methods |->
        [n \in DOMAIN op.verification_methods |->
            to_did(op.verification_methods[n])],
     also_known_as |-> op.also_known_as,
     services |-> [n \in {"atproto_pds"} |-> new_pds(op.atproto_pds)],
     prev |-> "null",
     sig |-> to_plc_signature(op.signature)]

\* Digest::hash (crate::digest, SHA-256): 32 bytes that are a fixed function
\* of the hashed content.  The content is summarised by a number that differs
\* for any two records of the model's universe, and the digest spreads that
\* number over its bytes.
SumSeq(f, n) ==
    LET S[i \in 0 .. n] == IF i = 0 THEN 0 ELSE S[i - 1] + f[i] IN S[n]

Pow(b, e) ==
    LET P[i \in 0 .. e] == IF i = 0 THEN 1 ELSE b * P[i - 1] IN P[e]

KeyOfDid(s) == CHOOSE k \in Keys : to_did(k) = s

ContentNumber(plc) ==
    LET rk == plc.rotation_keys
        n == Len(rk)
        rot == SumSeq([i \in 1 .. n |->
                          KeyOfDid(rk[i]) * Pow(NumKeys + 1, i - 1)], n)
        vmn == IF DOMAIN plc.verification_methods = {} THEN 0
               ELSE KeyOfDid(plc.verification_methods["atproto"])
        aka == Len(plc.also_known_as)
    IN  rot + Pow(NumKeys + 1, n + 1)
                * (vmn + (NumKeys + 1) * (aka + 2 * (plc.sig[2] - 1)))

\* ToBinary::encode_to_bytes of an Operation: the DAG-CBOR bytes of the
\* native encoding, which determine and are determined by the operation.
encode_to_bytes(op) == [type_ |-> "Operation", operation |-> op]

\* The number that summarises the native bytes of a CreateDID operation; it
\* differs from the number of every interop record.
OperationNumber(op) ==
    LET rk == op.rotation_keys
        n == Len(rk)
        rot == SumSeq([i \in 1 .. n |-> rk[i] * Pow(NumKeys + 1, i - 1)], n)
        vmn == IF DOMAIN op.verification_methods = {} THEN 0
               ELSE op.verification_methods["atproto"]
        aka == Len(op.also_known_as)
        pds == IF op.atproto_pds = "" THEN 0 ELSE 1
    IN  32768 + rot + Pow(NumKeys + 1, n + 1)
                * (vmn + (NumKeys + 1) * (aka + (MaxAliases + 1) * pds))

BytesNumber(bytes) ==
    IF bytes.type_ = "plc_operation" THEN ContentNumber(bytes)
    ELSE OperationNumber(bytes.operation)

HashLen == 32

Digest_hash(bytes) ==
    LET c == BytesNumber(bytes)
    IN  [i \in 1 .. HashLen |->
            IF i = 1 THEN c % 256
            ELSE IF i = 2 THEN (c \div 256) % 256
            ELSE (c * 31 + i * 17) % 256]

\* base32::encode(Alphabet::Rfc4648Lower { padding: false }, bytes)
Rfc4648Lower ==
    <<"a", "b", "c", "d", "e", "f", "g", "h", "i", "j", "k", "l", "m", "n",
      "o", "p", "q", "r", "s", "t", "u", "v", "w", "x", "y", "z", "2", "3",
      "4", "5", "6", "7">>

Bit(bytes, i) ==
    IF i > 8 * Len(bytes) THEN 0
    ELSE (bytes[((i - 1) \div 8) + 1] \div Pow(2, 7 - ((i - 1) % 8))) % 2

Quintet(bytes, j) ==
    SumSeq([t \in 1 .. 5 |-> Bit(bytes, 5 * (j - 1) + t) * Pow(2, 5 - t)], 5)

base32_encode(alphabet, bytes) ==
    LET n == (8 * Len(bytes) + 4) \div 5
    IN  [j \in 1 .. n |-> alphabet[Quintet(bytes, j) + 1]]

\* The first n characters of a text held as a sequence of characters, as a
\* string.
Concat(chars, n) ==
    LET C[i \in 0 .. n] == IF i = 0 THEN "" ELSE C[i - 1] \o chars[i] IN C[n]

DidLen == 24

\* SignedPLCOp::derive_did
derive_did(plc) ==
    LET b32 == base32_encode(Rfc4648Lower, Digest_hash(plc))
    IN  "did:prism:" \o Concat(b32, DidLen)

(***************************************************************************)
(* Transaction (transaction.rs)                                            *)
(***************************************************************************)
UnsignedTransaction(id, operation, nonce) ==
    [id |-> id, operation |-> operation, nonce |-> nonce]

\* ToBinary::encode_to_bytes of an UnsignedTransaction: the DAG-CBOR bytes,
\* which determine and are determined by the three fields.
signing_payload(utx) == <<"cbor", utx.id, utx.operation, utx.nonce>>

\* UnsignedTransaction::sign
utx_sign(utx, sk) ==
    [id |-> utx.id, operation |-> utx.operation, nonce |-> utx.nonce,
     signature |-> sign(sk, signing_payload(utx)), vk |-> verifying_key(sk)]

\* UnsignedTransaction::externally_signed
externally_signed(utx, bundle) ==
    [id |-> utx.id, operation |-> utx.operation, nonce |-> utx.nonce,
     signature |-> bundle.signature, vk |-> bundle.verifying_key]

\* Transaction::to_unsigned_tx
to_unsigned_tx(t) == UnsignedTransaction(t.id, t.operation, t.nonce)

\* Transaction::verify_signature
verify_signature(t) ==
    vk_verify_signature(t.vk, signing_payload(to_unsigned_tx(t)), t.signature)

(***************************************************************************)
(* Account (account.rs).  A fallible method is an operator that yields the *)
(* name of its error, or "Ok".                                             *)
(***************************************************************************)
\* is_empty taken as "holds no key".
is_empty_no_keys(acc) == acc.rotation_keys = <<>>

\* Account::is_empty
is_empty(acc) == acc.nonce = 0

\* validate_transaction with the nonce test loosened to reject only a nonce
\* ahead of the account's.
validate_transaction_stale_ok(acc, t) ==
    IF t.nonce > acc.nonce THEN "NonceError"
    ELSE IF t.operation.type = "CreateAccount"
         THEN IF t.id # t.operation.id THEN "AccountIdError"
              ELSE IF t.vk # t.operation.key THEN "AccountKeyError"
              ELSE "Ok"
         ELSE "Ok"

\* validate_transaction without the test of the key of a CreateAccount.
validate_transaction_no_key(acc, t) ==
    IF t.nonce # acc.nonce THEN "NonceError"
    ELSE IF t.operation.type = "CreateAccount"
         THEN IF t.id # t.operation.id THEN "AccountIdError" ELSE "Ok"
         ELSE "Ok"

\* Account::validate_transaction.  The checks of the transaction id against
\* the account id, of the key against rotation_keys and of the signature
\* are commented out in the source (lines 153-163 and 168).
validate_transaction(acc, t) ==
    IF t.nonce # acc.nonce THEN "NonceError"
    ELSE IF t.operation.type = "CreateAccount"
         THEN IF t.id # t.operation.id THEN "AccountIdError"
              ELSE IF t.vk # t.operation.key THEN "AccountKeyError"
              ELSE "Ok"
         ELSE "Ok"

\* validate_operation that lets a key already present be added again.
validate_operation_no_dup_check(acc, op) ==
    CASE op.type = "AddKey" -> "Ok"
      [] op.type = "RevokeKey" ->
            IF ~contains(acc.rotation_keys, op.key)
            THEN "KeyDoesNotExist" ELSE "Ok"
      [] op.type \in {"CreateDID", "CreateAccount"} ->
            IF ~is_empty(acc) THEN "AccountAlreadyExists" ELSE "Ok"

\* validate_operation that lets an absent key be revoked.
validate_operation_no_absent_check(acc, op) ==
    CASE op.type = "AddKey" ->
            IF contains(acc.rotation_keys, op.key)
            THEN "KeyAlreadyExists" ELSE "Ok"
      [] op.type = "RevokeKey" -> "Ok"
      [] op.type \in {"CreateDID", "CreateAccount"} ->
            IF ~is_empty(acc) THEN "AccountAlreadyExists" ELSE "Ok"

\* Account::validate_operation
validate_operation(acc, op) ==
    CASE op.type = "AddKey" ->
            IF contains(acc.rotation_keys, op.key)
            THEN "KeyAlreadyExists" ELSE "Ok"
      [] op.type = "RevokeKey" ->
            IF ~contains(acc.rotation_keys, op.key)
            THEN "KeyDoesNotExist" ELSE "Ok"
      [] op.type \in {"CreateDID", "CreateAccount"} ->
            IF ~is_empty(acc) THEN "AccountAlreadyExists" ELSE "Ok"

\* The mutation with a CreateAccount that pushes the key and leaves the id.
apply_operation_keeps_id(acc, op) ==
    CASE op.type = "AddKey" ->
            [acc EXCEPT !.rotation_keys = Append(@, op.key)]
      [] op.type = "RevokeKey" ->
            [acc EXCEPT !.rotation_keys = retain_ne(@, op.key)]
      [] op.type = "CreateDID" ->
            [acc EXCEPT !.did = op.did,
                        !.also_known_as = op.also_known_as,
                        !.rotation_keys = op.rotation_keys,
                        !.verification_methods = op.verification_methods,
                        !.services =
                            [n \in DOMAIN @ \cup {"atproto_pds"} |->
                                IF n = "atproto_pds"
                                THEN new_pds(op.atproto_pds) ELSE @[n]]]
      [] op.type = "CreateAccount" ->
            [acc EXCEPT !.rotation_keys = Append(@, op.key)]

\* The mutation with a CreateDID that files the PDS under the name "pds".
apply_operation_pds_renamed(acc, op) ==
    CASE op.type = "AddKey" ->
            [acc EXCEPT !.rotation_keys = Append(@, op.key)]
      [] op.type = "RevokeKey" ->
            [acc EXCEPT !.rotation_keys = retain_ne(@, op.key)]
      [] op.type = "CreateDID" ->
            [acc EXCEPT !.did = op.did,
                        !.also_known_as = op.also_known_as,
                        !.rotation_keys = op.rotation_keys,
                        !.verification_methods = op.verification_methods,
                        !.services =
                            [n \in DOMAIN @ \cup {"pds"} |->
                                IF n = "pds"
                                THEN new_pds(op.atproto_pds) ELSE @[n]]]
      [] op.type = "CreateAccount" ->
            [acc EXCEPT !.did = op.id,
                        !.rotation_keys = Append(@, op.key)]

\* The mutation of Account::process_operation, after validation.
apply_operation(acc, op) ==
    CASE op.type = "AddKey" ->
            [acc EXCEPT !.rotation_keys = Append(@, op.key)]
      [] op.type = "RevokeKey" ->
            [acc EXCEPT !.rotation_keys = retain_ne(@, op.key)]
      [] op.type = "CreateDID" ->
            [acc EXCEPT !.did = op.did,
                        !.also_known_as = op.also_known_as,
                        !.rotation_keys = op.rotation_keys,
                        !.verification_methods = op.verification_methods,
                        !.services =
                            [n \in DOMAIN @ \cup {"atproto_pds"} |->
                                IF n = "atproto_pds"
                                THEN new_pds(op.atproto_pds) ELSE @[n]]]
      [] op.type = "CreateAccount" ->
            [acc EXCEPT !.did = op.id,
                        !.rotation_keys = Append(@, op.key)]

\* process_operation that mutates before it validates.
process_operation_apply_first(acc, op) ==
    LET v == validate_operation(acc, op)
    IN  [result |-> v, account |-> apply_operation(acc, op)]

\* Account::process_operation: the result and the account afterwards.
process_operation(acc, op) ==
    LET v == validate_operation(acc, op)
    IN  IF v # "Ok" THEN [result |-> v, account |-> acc]
        ELSE [result |-> "Ok", account |-> apply_operation(acc, op)]

\* A one-bit nonce, which wraps to 0 on the second increment.
increment_nonce_one_bit(acc) == [acc EXCEPT !.nonce = (@ + 1) % 2]

\* The nonce stepped by two.
increment_nonce_twice(acc) == [acc EXCEPT !.nonce = @ + 2]

\* self.nonce += 1
increment_nonce(acc) == [acc EXCEPT !.nonce = @ + 1]

\* Account::process_transaction: the result and the account afterwards.
process_transaction(acc, t) ==
    LET v == validate_transaction(acc, t)
    IN  IF v # "Ok" THEN [result |-> v, account |-> acc]
        ELSE LET r == process_operation(acc, t.operation)
             IN  IF r.result # "Ok" THEN r
                 ELSE [result |-> "Ok", account |-> increment_nonce(r.account)]

(***************************************************************************)
(* The universe of submitted transactions.  process_transaction takes any  *)
(* Transaction value: one built and signed by the builder, one signed      *)
(* externally, or one decoded from a blob.                                 *)
(***************************************************************************)
AccountIds == {"", "alice", "bob"}

ChosenDid == "did:prism:chosen"

PdsEndpoint == "http://localhost:65473"

\* The detached signature a CreateDID operation carries.
PlcSignature == sign(1, <<"plc_genesis">>)

\* The rotation_keys lists of the submitted CreateDID operations: none, one
\* key, and two keys (equal or different).
RotationKeyChoices ==
    {<<>>} \cup {<<k>> : k \in Keys} \cup {<<1, k>> : k \in Keys}

VerificationMethodChoices == {[n \in {"atproto"} |-> 1]}

AliasChoices == {<<"at://alice.test">>}

\* A CreateDID operation whose did is the one derived from its content.
DerivedCreateDID(vms, rks, aka) ==
    LET op == CreateDIDOp("", vms, rks, aka, PdsEndpoint, PlcSignature)
    IN  [op EXCEPT !.did = derive_did(SignedPLCOp(op))]

CreateDIDOperations ==
    LET derived == {DerivedCreateDID(vms, rks, aka) :
                        vms \in VerificationMethodChoices,
                        rks \in RotationKeyChoices,
                        aka \in AliasChoices}
    IN  derived \cup {[op EXCEPT !.did = ChosenDid] : op \in derived}

Operations ==
    {CreateAccountOp(id, k) : id \in AccountIds, k \in Keys}
        \cup {AddKeyOp(k) : k \in Keys}
        \cup {RevokeKeyOp(k) : k \in Keys}
        \cup CreateDIDOperations

TransactionIds(op) ==
    AccountIds \cup (IF op.type = "CreateDID" THEN {op.did} ELSE {})

UnsignedTransactions ==
    UNION {{UnsignedTransaction(id, op, n) :
                id \in TransactionIds(op), n \in 0 .. MaxNonce} :
           op \in Operations}

\* A payload the signer was shown instead of the transaction's own.
OtherPayload(utx) == signing_payload([utx EXCEPT !.nonce = @ + 1])

\* Every transaction is either signed in process (sign) or carries an
\* external bundle, whose signature may be over other bytes.
Transactions ==
    UNION {{utx_sign(utx, k),
            externally_signed(utx,
                [verifying_key |-> k,
                 signature |-> sign(k, OtherPayload(utx))])} :
           utx \in UnsignedTransactions, k \in Keys}


(***************************************************************************)
(* The staged request builder (builder.rs).  Every stage method consumes   *)
(* the stage it is called on: stage names the struct the caller now holds, *)
(* builder its fields.  "Failed" is the stage after a method returned Err  *)
(* (err), "Taken" the one after transaction() handed the value out.        *)
(***************************************************************************)
NoBuilder == [prism |-> FALSE]

\* Option<VerifyingKey>
None == <<>>

Some(x) == <<x>>

ServiceIds == {"service"}

\* The id made of the single character U+65E5, whose UTF-8 encoding has
\* three bytes.
KanjiId == "<U+65E5>"

\* String::len: the length of the UTF-8 encoding, in bytes.
str_len(s) == IF s = KanjiId THEN 3 ELSE Len(s)

\* s.chars().count(): the length in characters.
chars_count(s) == IF s = KanjiId THEN 1 ELSE Len(s)

\* The account snapshots handed to to_modify_account.
SnapshotIds == {"", "al", "alice", KanjiId}

SnapshotAccounts ==
    {[DefaultAccount EXCEPT !.did = id, !.nonce = n] :
        id \in SnapshotIds, n \in 0 .. MaxNonce}

PdsChoices == {PdsEndpoint}

Aliases == {"at://alice.test"}

\* The bundles handed to with_external_signature: a signature over the
\* transaction's payload or over another one.
SignatureBundles(utx) ==
    {[verifying_key |-> k, signature |-> sign(k, m)] :
        k \in Keys, m \in {signing_payload(utx), OtherPayload(utx)}}

\* The CreateDID operation as CreateDIDRequestBuilder::build writes it.
BuilderCreateDID(did, vms, rks, aka, pds) ==
    [type |-> "CreateDID", did |-> did, verification_methods |-> vms,
     rotation_keys |-> rks, also_known_as |-> aka, atproto_pds |-> pds]

ALPHABET ==
    <<"A", "B", "C", "D", "E", "F", "G", "H", "I", "J", "K", "L", "M", "N",
      "O", "P", "Q", "R", "S", "T", "U", "V", "W", "X", "Y", "Z", "2", "3",
      "4", "5", "6", "7">>

\* encode_base32 of builder.rs: the quintets of the data, most significant
\* bit first, the last one filled with zero bits, and one "=" when the
\* number of characters is a multiple of 8.
encode_base32(data) ==
    IF data = <<>> THEN <<>>
    ELSE LET chars == base32_encode(ALPHABET, data)
         IN  IF Len(chars) % 8 = 0 THEN Append(chars, "=") ELSE chars

SplitOff == 24

\* The characters build() keeps of the encoded hash of the provisional
\* operation (the one with an empty did).
build_did_chars(vms, rks, aka, pds) ==
    LET operation == BuilderCreateDID("", vms, rks, aka, pds)
        op_hash == Digest_hash(encode_to_bytes(operation))
    IN  SubSeq(encode_base32(op_hash), 1, SplitOff)

build_did(vms, rks, aka, pds) ==
    "did:prism:" \o Concat(build_did_chars(vms, rks, aka, pds), SplitOff)

\* The caller moves to the next stage struct.
Advance(s, b) ==
    /\ stage' = s /\ builder' = b /\ err' = "None"
    /\ UNCHANGED <<ledger_vars, posted, call, pending>>

\* A stage method returned Err(e); the builder is consumed.
Fail(e) ==
    /\ stage' = "Failed" /\ builder' = NoBuilder /\ err' = e
    /\ UNCHANGED <<via, ledger_vars, posted, call, pending>>

\* A stage method opened the signing stage for the transaction utx.
ToSigning(utx, transition) ==
    /\ Advance("Signing", [prism |-> builder.prism, unsigned_transaction |-> utx])
    /\ via' = transition

RequestBuilder_new ==
    /\ stage = "None"
    /\ Advance("RequestBuilder", [prism |-> FALSE])
    /\ UNCHANGED via

RequestBuilder_new_with_prism ==
    /\ stage = "None"
    /\ Advance("RequestBuilder", [prism |-> TRUE])
    /\ UNCHANGED via

create_account ==
    /\ stage = "RequestBuilder"
    /\ Advance("CreateAccount",
               [prism |-> builder.prism, id |-> "", service_id |-> "",
                key |-> None])
    /\ UNCHANGED via

with_id(id) ==
    /\ stage = "CreateAccount"
    /\ Advance("CreateAccount", [builder EXCEPT !.id = id])
    /\ UNCHANGED via

with_key(key) ==
    /\ stage = "CreateAccount"
    /\ Advance("CreateAccount", [builder EXCEPT !.key = Some(key)])
    /\ UNCHANGED via

for_service_with_id(service_id) ==
    /\ stage = "CreateAccount"
    /\ Advance("CreateAccount", [builder EXCEPT !.service_id = service_id])
    /\ UNCHANGED via

\* meeting_signed_challenge without the call of validate_basic.
meeting_signed_challenge_unvalidated(service_signing_key) ==
    /\ stage = "CreateAccount"
    /\ IF builder.key = None THEN Fail("MissingKey")
       ELSE ToSigning(UnsignedTransaction(builder.id,
                          CreateAccountOp(builder.id, builder.key[1]), 0),
                      "create_account")

\* Digest::hash_items(&[id, service_id, key bytes]): the challenge hash, a
\* fixed function of the three items.
hash_items(id, service_id, key) == <<"hash_items", id, service_id, key>>

\* meeting_signed_challenge that embeds the service's signature over the
\* challenge in the operation it emits.
meeting_signed_challenge_embedding(service_signing_key) ==
    /\ stage = "CreateAccount"
    /\ IF builder.key = None THEN Fail("MissingKey")
       ELSE LET hash == hash_items(builder.id, builder.service_id, builder.key[1])
                signature == sign(service_signing_key, hash)
                operation ==
                    [type |-> "CreateAccount", id |-> builder.id,
                     key |-> builder.key[1], challenge |-> signature]
            IN  IF validate_basic(operation) # "Ok" THEN Fail("InvalidOp")
                ELSE ToSigning(UnsignedTransaction(builder.id, operation, 0),
                               "create_account")

\* CreateAccountRequestBuilder::meeting_signed_challenge.  The signature of
\* the service key over the challenge hash is computed and dropped.
meeting_signed_challenge(service_signing_key) ==
    /\ stage = "CreateAccount"
    /\ IF builder.key = None THEN Fail("MissingKey")
       ELSE LET hash == hash_items(builder.id, builder.service_id, builder.key[1])
                signature == sign(service_signing_key, hash)
                operation == CreateAccountOp(builder.id, builder.key[1])
            IN  IF validate_basic(operation) # "Ok" THEN Fail("InvalidOp")
                ELSE ToSigning(UnsignedTransaction(builder.id, operation, 0),
                               "create_account")

create_did ==
    /\ stage = "RequestBuilder"
    /\ Advance("CreateDID",
               [prism |-> builder.prism, did |-> "",
                verification_methods |-> EmptyMap, rotation_keys |-> <<>>,
                also_known_as |-> <<>>, atproto_pds |-> ""])
    /\ UNCHANGED via

with_verification_method(id, key) ==
    /\ stage = "CreateDID"
    /\ Advance("CreateDID",
               [builder EXCEPT !.verification_methods =
                    [n \in DOMAIN @ \cup {id} |-> IF n = id THEN key ELSE @[n]]])
    /\ UNCHANGED via

with_rotation_keys(keys) ==
    /\ stage = "CreateDID"
    /\ Advance("CreateDID", [builder EXCEPT !.rotation_keys = keys])
    /\ UNCHANGED via

with_also_known_as(alias) ==
    /\ stage = "CreateDID"
    /\ Len(builder.also_known_as) < MaxAliases
    /\ Advance("CreateDID", [builder EXCEPT !.also_known_as = Append(@, alias)])
    /\ UNCHANGED via

with_atproto_pds(pds) ==
    /\ stage = "CreateDID"
    /\ Advance("CreateDID", [builder EXCEPT !.atproto_pds = pds])
    /\ UNCHANGED via

\* CreateDIDRequestBuilder::build.  The transaction id is the builder's did
\* field, which no method sets.
build ==
    /\ stage = "CreateDID"
    /\ LET did == build_did(builder.verification_methods,
                            builder.rotation_keys, builder.also_known_as,
                            builder.atproto_pds)
           operation == BuilderCreateDID(did, builder.verification_methods,
                            builder.rotation_keys, builder.also_known_as,
                            builder.atproto_pds)
       IN  IF validate_basic(operation) # "Ok" THEN Fail("InvalidOp")
           ELSE ToSigning(UnsignedTransaction(builder.did, operation, 0),
                          "create_did")

to_modify_account(acc) ==
    /\ stage = "RequestBuilder"
    /\ Advance("ModifyAccount",
               [prism |-> builder.prism, id |-> acc.did, nonce |-> acc.nonce])
    /\ UNCHANGED via

MinIdLen == 3

\* validate_id_and_nonce without the test of the nonce.
validate_id_only(b) ==
    IF str_len(b.id) < MinIdLen THEN "InvalidOp" ELSE "Ok"

\* ModifyAccountRequestBuilder::validate_id_and_nonce
validate_id_and_nonce(b) ==
    IF str_len(b.id) < MinIdLen THEN "InvalidOp"
    ELSE IF b.nonce = 0 THEN "InvalidNonce"
    ELSE "Ok"

\* add_key and revoke_key, for the operation they make.
modify(operation, transition) ==
    /\ stage = "ModifyAccount"
    /\ IF validate_id_and_nonce(builder) # "Ok"
       THEN Fail(validate_id_and_nonce(builder))
       ELSE IF validate_basic(operation) # "Ok" THEN Fail("InvalidOp")
       ELSE ToSigning(UnsignedTransaction(builder.id, operation, builder.nonce),
                      transition)

add_key(key) == modify(AddKeyOp(key), "add_key")

revoke_key(key) == modify(RevokeKeyOp(key), "revoke_key")

\* RequestBuilder::continue_transaction: the signing stage for an unsigned
\* transaction the caller supplies.
continue_transaction(unsigned_transaction) ==
    /\ stage = "RequestBuilder"
    /\ ToSigning(unsigned_transaction, "continue_transaction")

ToSending(transaction) ==
    /\ Advance("Sending", [prism |-> builder.prism, transaction |-> transaction])
    /\ UNCHANGED via

\* SigningTransactionRequestBuilder::sign
builder_sign(signing_key) ==
    /\ stage = "Signing"
    /\ ToSending(utx_sign(builder.unsigned_transaction, signing_key))

with_external_signature(signature_bundle) ==
    /\ stage = "Signing"
    /\ ToSending(externally_signed(builder.unsigned_transaction,
                                   signature_bundle))

\* The outcomes of PrismApi::post_transaction, a method of the bound
\* capability: a pending transaction or an error of the API.
PostOutcomes == {"Ok", "RequestFailed"}

\* prism.post_transaction(self.transaction).await: the call is recorded in
\* posted; the caller then holds the pending transaction or the error.
post_transaction(transaction) ==
    /\ posted' = Append(posted, transaction)
    /\ \E outcome \in PostOutcomes :
          IF outcome = "Ok"
          THEN /\ stage' = "Pending"
               /\ builder' = [prism |-> TRUE, transaction |-> transaction]
               /\ err' = "None"
          ELSE /\ stage' = "Failed"
               /\ builder' = NoBuilder
               /\ err' = outcome
    /\ UNCHANGED <<via, ledger_vars, call, pending>>

\* send that posts without looking for the submission capability.
send_unchecked ==
    /\ stage = "Sending"
    /\ post_transaction(builder.transaction)

\* SendingTransactionRequestBuilder::send
send ==
    /\ stage = "Sending"
    /\ IF ~builder.prism THEN Fail("MissingSender")
       ELSE post_transaction(builder.transaction)

\* SigningTransactionRequestBuilder::transaction and
\* SendingTransactionRequestBuilder::transaction
transaction ==
    /\ stage \in {"Signing", "Sending"}
    /\ Advance("Taken",
               [returned |-> IF stage = "Signing"
                             THEN builder.unsigned_transaction
                             ELSE builder.transaction])
    /\ UNCHANGED via

(***************************************************************************)
(* Conversions between the native Transaction and the interop wire         *)
(* transaction (transaction.rs).  call holds the latest call: the function *)
(* (fn), its argument (arg), its result (ret) and, for a conversion back,  *)
(* the transaction the round trip started from (origin).                   *)
(***************************************************************************)
NoCall == [fn |-> "None"]

NoPending == [pc |-> "None"]

\* UnsignedPLCOp::new_genesis: the genesis record with the PDS endpoint
\* wrapped into the standard service map and no prev link.
new_genesis(rotation_keys, verification_methods, also_known_as, atproto_pds) ==
    [type_ |-> "plc_operation",
     rotation_keys |-> rotation_keys,
     verification_methods |-> verification_methods,
     also_known_as |-> also_known_as,
     services |-> [n \in {"atproto_pds"} |-> new_pds(atproto_pds)],
     prev |-> "null"]

\* SignedPLCOp { unsigned, sig }, flattened.
WithSig(unsigned, sig) ==
    [f \in DOMAIN unsigned \cup {"sig"} |->
        IF f = "sig" THEN sig ELSE unsigned[f]]

\* Signature::from_algorithm_and_bytes(Secp256k1, base64url-decode(text)):
\* the signature whose bytes the text encodes.
from_plc_signature(text) == [signer |-> text[2], msg |-> text[3]]

\* impl TryInto<DidTransaction> for Transaction, on a CreateDID transaction
\* (any other operation gives Err("Invalid operation")).
to_did_transaction(t) ==
    LET op == t.operation
        plc_sig == to_plc_signature(op.signature)
    IN  [did |-> op.did,
         operation |->
            WithSig(new_genesis(
                        [i \in 1 .. Len(op.rotation_keys) |->
                            to_did(op.rotation_keys[i])],
                        [n \in DOMAIN op.verification_methods |->
                            to_did(op.verification_methods[n])],
                        op.also_known_as, op.atproto_pds),
                    plc_sig),
         nonce |-> t.nonce,
         signature |-> plc_sig,
         vk |-> to_did(t.vk)]

\* impl TryInto<Transaction> for DidTransaction
to_transaction(d) ==
    [id |-> d.did,
     operation |->
        CreateDIDOp(d.did,
            [n \in DOMAIN d.operation.verification_methods |->
                KeyOfDid(d.operation.verification_methods[n])],
            [i \in 1 .. Len(d.operation.rotation_keys) |->
                KeyOfDid(d.operation.rotation_keys[i])],
            d.operation.also_known_as,
            d.operation.services["atproto_pds"].endpoint,
            from_plc_signature(d.operation.sig)),
     nonce |-> d.nonce,
     signature |-> from_plc_signature(d.signature),
     vk |-> KeyOfDid(d.vk)]

\* impl From<DidTransaction> for USDidTransaction
us_did_transaction(d) == [did |-> d.did, operation |-> d.operation, nonce |-> d.nonce]

\* serde_ipld_dagcbor::to_vec of a USDidTransaction: the DAG-CBOR bytes of
\* the interop form, which determine and are determined by its three fields
\* and differ from the bytes of every native UnsignedTransaction.
us_did_payload(us) == <<"dagcbor", us.did, us.operation, us.nonce>>

\* Transaction::verify_cbor_signature
verify_cbor_signature(t) ==
    vk_verify_signature(t.vk,
        us_did_payload(us_did_transaction(to_did_transaction(t))), t.signature)

\* The CreateDID transactions of the universe.
CreateDIDTransactions == {t \in Transactions : t.operation.type = "CreateDID"}

\* A caller converts the native transaction t to the wire transaction.
TryIntoDidTransaction(t) ==
    /\ call.fn = "None"
    /\ call' = [fn |-> "Transaction::try_into", arg |-> t,
                ret |-> to_did_transaction(t), origin |-> t]
    /\ UNCHANGED <<ledger_vars, builder_vars, posted, pending>>

\* The caller converts the wire transaction it holds back.
TryIntoTransaction ==
    /\ call.fn = "Transaction::try_into"
    /\ call' = [fn |-> "DidTransaction::try_into", arg |-> call.ret,
                ret |-> to_transaction(call.ret), origin |-> call.origin]
    /\ UNCHANGED <<ledger_vars, builder_vars, posted, pending>>

\* The operations a caller hands to validate_basic: every kind, the
\* CreateDID ones with no, one, ten and eleven verification methods and with
\* or without rotation keys.
ValidatedOperations ==
    {CreateAccountOp(id, k) : id \in AccountIds, k \in Keys}
        \cup {AddKeyOp(k) : k \in Keys}
        \cup {RevokeKeyOp(k) : k \in Keys}
        \cup {CreateDIDOp(ChosenDid,
                          [name \in {"vm" \o ToString(i) : i \in 1 .. n} |-> 1],
                          rks, <<>>, PdsEndpoint, PlcSignature) :
                    n \in {0, 1, MaxVerificationMethods,
                           MaxVerificationMethods + 1},
                    rks \in {<<>>, <<1>>, <<1, 2>>}}

\* A caller validates the operation op.
ValidateBasic(op) ==
    /\ call.fn = "None"
    /\ call' = [fn |-> "Operation::validate_basic", arg |-> op,
                ret |-> validate_basic(op)]
    /\ UNCHANGED <<ledger_vars, builder_vars, posted, pending>>

\* The orders in which iterating a HashMap with the key set S can yield its
\* entries: any order, each key once.
IterationOrders(S) ==
    {f \in [1 .. Cardinality(S) -> S] :
        \A i, j \in DOMAIN f : f[i] = f[j] => i = j}

\* The rendering with the verification-method ids left relative.
DidDocument_from_relative_ids(acc, vm_order, service_order) ==
    [context |-> <<"https://www.w3.org/ns/did/v1",
                   "https://w3id.org/security/multikey/v1">>,
     id |-> acc.did,
     also_known_as |-> acc.also_known_as,
     verification_method |->
        [i \in DOMAIN vm_order |->
            [id |-> "#" \o vm_order[i],
             method_type |-> "Multikey",
             controller |-> acc.did,
             public_key_multibase |->
                "z" \o ToString(acc.verification_methods[vm_order[i]])]],
     service |->
        [i \in DOMAIN service_order |->
            [id |-> "#" \o service_order[i],
             service_type |-> acc.services[service_order[i]].service_type,
             service_endpoint |-> acc.services[service_order[i]].endpoint]]]

\* impl From<&Account> for DidDocument.  The two vectors follow the maps'
\* iteration orders; public_key_multibase is the key's did:key string
\* without its "did:key:" prefix.
DidDocument_from(acc, vm_order, service_order) ==
    [context |-> <<"https://www.w3.org/ns/did/v1",
                   "https://w3id.org/security/multikey/v1">>,
     id |-> acc.did,
     also_known_as |-> acc.also_known_as,
     verification_method |->
        [i \in DOMAIN vm_order |->
            [id |-> acc.did \o "#" \o vm_order[i],
             method_type |-> "Multikey",
             controller |-> acc.did,
             public_key_multibase |->
                "z" \o ToString(acc.verification_methods[vm_order[i]])]],
     service |->
        [i \in DOMAIN service_order |->
            [id |-> "#" \o service_order[i],
             service_type |-> acc.services[service_order[i]].service_type,
             service_endpoint |-> acc.services[service_order[i]].endpoint]]]

\* The accounts a document is rendered from: the default one and accounts
\* left by CreateAccount and by CreateDID with one or two named keys.
RenderedAccounts ==
    {DefaultAccount,
     [DefaultAccount EXCEPT !.did = "alice", !.nonce = 1,
                            !.rotation_keys = <<1>>]}
        \cup {[DefaultAccount EXCEPT
                    !.did = ChosenDid, !.nonce = 1, !.rotation_keys = <<1>>,
                    !.also_known_as = aka,
                    !.verification_methods = vms,
                    !.services =
                        [n \in {"atproto_pds"} |-> new_pds(PdsEndpoint)]] :
                aka \in {<<>>, <<"at://alice.test">>},
                vms \in {EmptyMap, [n \in {"atproto"} |-> 1],
                         [n \in {"atproto", "signing"} |->
                             IF n = "atproto" THEN 1 ELSE 2]}}

\* A caller renders the identity document of the account acc.
RenderDocument(acc) ==
    /\ call.fn = "None"
    /\ \E vm_order \in IterationOrders(DOMAIN acc.verification_methods),
          service_order \in IterationOrders(DOMAIN acc.services) :
          call' = [fn |-> "DidDocument::from", self |-> acc,
                   ret |-> DidDocument_from(acc, vm_order, service_order)]
    /\ UNCHANGED <<ledger_vars, builder_vars, posted, pending>>

\* The number of keys, and the longest rotation_keys list, of the accounts
\* process_operation is called on.
MaxOperated == 3

\* The accounts process_operation is called on: an existing account with
\* any list of rotation keys, repeats included.
OperatedAccounts ==
    {[DefaultAccount EXCEPT !.did = "alice", !.nonce = 1,
                            !.rotation_keys = rks] :
        rks \in UNION {[1 .. n -> 1 .. MaxOperated] : n \in 0 .. MaxOperated}}

\* A caller's account acc processes the key operation op.
ProcessOperation(acc, op) ==
    /\ call.fn = "None"
    /\ call' = [fn |-> "Account::process_operation", self |-> acc,
                arg |-> op, ret |-> process_operation(acc, op)]
    /\ UNCHANGED <<ledger_vars, builder_vars, posted, pending>>

\* The transactions two callers make for the account "alice" from one
\* snapshot: they carry the nonce n.
SnapshotTransactions(n) ==
    {utx_sign(UnsignedTransaction("alice", op, n), 1) :
        op \in {CreateAccountOp("alice", 1)}
                \cup {AddKeyOp(k) : k \in Keys}
                \cup {RevokeKeyOp(k) : k \in Keys}}

\* The account acc processes the transaction first and then second.
ProcessBoth(acc, first, second) ==
    /\ call.fn = "None"
    /\ LET r1 == process_transaction(acc, first)
           r2 == process_transaction(r1.account, second)
       IN  call' = [fn |-> "Account::process_transaction twice",
                    self |-> acc, arg |-> <<first, second>>,
                    ret |-> <<r1.result, r2.result>>]
    /\ UNCHANGED <<ledger_vars, builder_vars, posted, pending>>

(***************************************************************************)
(* Waiting for a posted transaction (api/mod.rs).  pending is the          *)
(* PendingTransactionImpl a caller holds and the position of its wait:     *)
(* "Created" before the wait, "Poll" at the get_account call, "Sleep" in   *)
(* Timer::sleep, "Ok" / "Err" once the wait returned (ret).  requested is  *)
(* the id of the last get_account call, response what it returned, slept   *)
(* the duration of the last sleep.  The loop keeps no counter.             *)
(***************************************************************************)
\* DEFAULT_POLLING_INTERVAL, in seconds.
DEFAULT_POLLING_INTERVAL == 5

PendingTransactions ==
    {utx_sign(UnsignedTransaction(id, AddKeyOp(2), n), 1) :
        id \in {"alice", "bob"}, n \in 0 .. MaxNonce}

\* What a get_account call returns: an error, or a response with or without
\* an account.
AccountResponses ==
    {[ok |-> FALSE, error |-> "RequestFailed"], [ok |-> TRUE, account |-> None]}
        \cup {[ok |-> TRUE,
               account |-> Some([DefaultAccount EXCEPT !.did = "alice",
                                                       !.nonce = n])] :
                    n \in 0 .. MaxNonce}

\* PendingTransactionImpl::new
PendingTransactionImpl_new(t) ==
    /\ pending.pc = "None"
    /\ pending' = [pc |-> "Created", transaction |-> t,
                   entry |-> "None", interval |-> 0, requested |-> None,
                   response |-> None, slept |-> 0, ret |-> None]
    /\ UNCHANGED <<ledger_vars, builder_vars, posted, call>>

\* wait_with_interval is entered, by the caller or by wait.
wait_with_interval_from(entry, interval) ==
    /\ pending.pc = "Created"
    /\ pending' = [pending EXCEPT !.pc = "Poll", !.entry = entry,
                                  !.interval = interval]
    /\ UNCHANGED <<ledger_vars, builder_vars, posted, call>>

\* PendingTransaction::wait
wait == wait_with_interval_from("wait", DEFAULT_POLLING_INTERVAL)

\* PendingTransaction::wait_with_interval, called directly.
wait_with_interval(interval) ==
    wait_with_interval_from("wait_with_interval", interval)

\* The loop's pass that takes a failed poll for an empty answer and retries.
poll_retrying(response) ==
    /\ pending.pc = "Poll"
    /\ LET polled == [pending EXCEPT
                        !.requested = Some(pending.transaction.id),
                        !.response = Some(response)]
       IN  pending' =
              IF ~response.ok
              THEN [polled EXCEPT !.pc = "Sleep"]
              ELSE IF /\ response.account # None
                      /\ response.account[1].nonce > pending.transaction.nonce
              THEN [polled EXCEPT !.pc = "Ok", !.ret = response.account]
              ELSE [polled EXCEPT !.pc = "Sleep"]
    /\ UNCHANGED <<ledger_vars, builder_vars, posted, call>>

\* The loop's pass with the nonce test narrowed to "exactly the next one".
poll_nonce_next(response) ==
    /\ pending.pc = "Poll"
    /\ LET polled == [pending EXCEPT
                        !.requested = Some(pending.transaction.id),
                        !.response = Some(response)]
       IN  pending' =
              IF ~response.ok
              THEN [polled EXCEPT !.pc = "Err", !.ret = Some(response.error)]
              ELSE IF /\ response.account # None
                      /\ response.account[1].nonce
                            = pending.transaction.nonce + 1
              THEN [polled EXCEPT !.pc = "Ok", !.ret = response.account]
              ELSE [polled EXCEPT !.pc = "Sleep"]
    /\ UNCHANGED <<ledger_vars, builder_vars, posted, call>>

\* The loop's pass with the nonce test relaxed to "at least".
poll_nonce_reached(response) ==
    /\ pending.pc = "Poll"
    /\ LET polled == [pending EXCEPT
                        !.requested = Some(pending.transaction.id),
                        !.response = Some(response)]
       IN  pending' =
              IF ~response.ok
              THEN [polled EXCEPT !.pc = "Err", !.ret = Some(response.error)]
              ELSE IF /\ response.account # None
                      /\ response.account[1].nonce >= pending.transaction.nonce
              THEN [polled EXCEPT !.pc = "Ok", !.ret = response.account]
              ELSE [polled EXCEPT !.pc = "Sleep"]
    /\ UNCHANGED <<ledger_vars, builder_vars, posted, call>>

\* One pass of the loop up to its return or its sleep: get_account for the
\* transaction's id answers response; `?` returns its error; an account
\* whose nonce exceeds the transaction's is returned; else the task sleeps.
poll(response) ==
    /\ pending.pc = "Poll"
    /\ LET polled == [pending EXCEPT
                        !.requested = Some(pending.transaction.id),
                        !.response = Some(response)]
       IN  pending' =
              IF ~response.ok
              THEN [polled EXCEPT !.pc = "Err", !.ret = Some(response.error)]
              ELSE IF /\ response.account # None
                      /\ response.account[1].nonce > pending.transaction.nonce
              THEN [polled EXCEPT !.pc = "Ok", !.ret = response.account]
              ELSE [polled EXCEPT !.pc = "Sleep"]
    /\ UNCHANGED <<ledger_vars, builder_vars, posted, call>>

\* Self::Timer::sleep(interval).await has elapsed: the loop starts over.
Timer_sleep ==
    /\ pending.pc = "Sleep"
    /\ pending' = [pending EXCEPT !.pc = "Poll", !.slept = pending.interval]
    /\ UNCHANGED <<ledger_vars, builder_vars, posted, call>>

(***************************************************************************)
(* The node behind the submission capability.  It is not part of the       *)
(* sources: it queues the transactions posted for the account "alice"      *)
(* (posted), applies them one by one with process_transaction (log holds   *)
(* the accepted ones) and answers get_account with the account it holds.   *)
(***************************************************************************)
\* The most transactions the node holds unapplied.
MaxQueue == 2

\* The transactions clients post for the account "alice".
NodeTransactions ==
    {utx_sign(UnsignedTransaction("alice", CreateAccountOp("alice", k), n), k) :
        k \in Keys, n \in 0 .. 1}
        \cup {utx_sign(UnsignedTransaction("alice", AddKeyOp(2), n), 1) :
                n \in 0 .. 1}

\* The node's get_account: the account held under id, if there is one.
node_get_account(id) ==
    [ok |-> TRUE,
     account |-> IF id = "alice" /\ account # DefaultAccount
                 THEN Some(account) ELSE None]

\* Another client posts the transaction t.
NodePost(t) ==
    /\ Len(posted) < MaxQueue
    /\ posted' = Append(posted, t)
    /\ UNCHANGED <<ledger_vars, builder_vars, call, pending>>

\* The waiting client posts t and holds the pending transaction it is given.
PostAndHold(t) ==
    /\ Len(posted) < MaxQueue
    /\ pending.pc = "None"
    /\ posted' = Append(posted, t)
    /\ pending' = [pc |-> "Created", transaction |-> t,
                   entry |-> "None", interval |-> 0, requested |-> None,
                   response |-> None, slept |-> 0, ret |-> None]
    /\ UNCHANGED <<ledger_vars, builder_vars, call>>

\* The node applies the oldest posted transaction to the account.
NodeApply ==
    /\ posted # <<>>
    /\ LET r == process_transaction(account, Head(posted))
       IN  /\ account' = r.account
           /\ log' = IF r.result = "Ok" THEN Append(log, Head(posted))
                     ELSE log
    /\ posted' = Tail(posted)
    /\ UNCHANGED <<pc, tx, result, before, n_accepted>>
    /\ UNCHANGED <<builder_vars, call, pending>>

\* The waiting client's poll is answered by the node, or fails on the way.
NodePoll ==
    /\ pending.pc = "Poll"
    /\ \E response \in {node_get_account(pending.transaction.id),
                         [ok |-> FALSE, error |-> "RequestFailed"]} :
          poll(response)

(***************************************************************************)
(* The state machine: one account, owned by one caller, driven by          *)
(* successive calls of process_transaction.  While pc = "returned" the     *)
(* caller holds the outcome of the call it just made: tx is its argument,  *)
(* result its outcome and before the account as it was when the call       *)
(* started.  n_accepted counts the calls that returned Ok; log is the      *)
(* sequence of the accepted transactions, which SubmitLogged records.      *)
(***************************************************************************)
NoTransaction == utx_sign(UnsignedTransaction("", AddKeyOp(1), 0), 1)

Init ==
    /\ account = DefaultAccount
    /\ pc = "idle"
    /\ tx = NoTransaction
    /\ result = "None"
    /\ before = DefaultAccount
    /\ n_accepted = 0
    /\ log = <<>>
    /\ stage = "None"
    /\ builder = NoBuilder
    /\ via = "None"
    /\ err = "None"
    /\ posted = <<>>
    /\ call = NoCall
    /\ pending = NoPending

\* One call account.process_transaction(&t).
Submit(t) ==
    /\ LET r == process_transaction(account, t)
       IN  /\ account' = r.account
           /\ result' = r.result
           /\ n_accepted' = IF r.result = "Ok" THEN n_accepted + 1
                            ELSE n_accepted
    /\ tx' = t
    /\ before' = account
    /\ pc' = "returned"
    /\ UNCHANGED <<builder_vars, posted, call, pending>>

\* The caller is free to call, and the nonce is below the model's bound.
CanSubmit == pc = "idle" /\ account.nonce < MaxNonce

SubmitTransaction ==
    /\ CanSubmit
    /\ \E t \in Transactions : Submit(t) /\ UNCHANGED log

\* The caller has consumed the Result and is ready for its next call.
Return ==
    /\ pc = "returned"
    /\ pc' = "idle"
    /\ tx' = NoTransaction
    /\ result' = "None"
    /\ before' = account
    /\ UNCHANGED <<account, n_accepted, log>>
    /\ UNCHANGED <<builder_vars, posted, call, pending>>

Next == SubmitTransaction \/ Return

Spec == Init /\ [][Next]_vars

(***************************************************************************)
(* A second specification, which records every accepted transaction in     *)
(* log.  Its transactions are the ones made for the account "alice", with  *)
(* any nonce, signed in process or carrying an external bundle.            *)
(***************************************************************************)
ReplayOperations ==
    {CreateAccountOp("alice", k) : k \in Keys}
        \cup {AddKeyOp(k) : k \in Keys}
        \cup {RevokeKeyOp(k) : k \in Keys}
        \cup {DerivedCreateDID([n \in {"atproto"} |-> 1], rks,
                               <<"at://alice.test">>) :
                    rks \in {<<1>>, <<1, 1>>}}

ReplayTransactions ==
    UNION {{utx_sign(UnsignedTransaction("alice", op, n), k),
            externally_signed(UnsignedTransaction("alice", op, n),
                [verifying_key |-> k,
                 signature |->
                    sign(k, OtherPayload(
                                UnsignedTransaction("alice", op, n)))])} :
           op \in ReplayOperations, n \in 0 .. MaxNonce, k \in Keys}

SubmitLogged ==
    /\ CanSubmit
    /\ \E t \in ReplayTransactions :
          /\ Submit(t)
          /\ log' = IF result' = "Ok" THEN Append(log, t) ELSE log

NextReplay == SubmitLogged \/ Return

SpecReplay == Init /\ [][NextReplay]_vars

(***************************************************************************)
(* A third specification: one caller drives one request builder through    *)
(* its public stage methods.                                               *)
(***************************************************************************)
NextBuilder ==
    \/ RequestBuilder_new
    \/ RequestBuilder_new_with_prism
    \/ create_account
    \/ \E id \in AccountIds : with_id(id)
    \/ \E key \in Keys : with_key(key)
    \/ \E service_id \in ServiceIds : for_service_with_id(service_id)
    \/ \E service_signing_key \in Keys :
           meeting_signed_challenge(service_signing_key)
    \/ create_did
    \/ \E key \in Keys : with_verification_method("atproto", key)
    \/ \E keys \in RotationKeyChoices : with_rotation_keys(keys)
    \/ \E alias \in Aliases : with_also_known_as(alias)
    \/ \E pds \in PdsChoices : with_atproto_pds(pds)
    \/ build
    \/ \E acc \in SnapshotAccounts : to_modify_account(acc)
    \/ \E key \in Keys : add_key(key)
    \/ \E key \in Keys : revoke_key(key)
    \/ \E unsigned_transaction \in UnsignedTransactions :
           continue_transaction(unsigned_transaction)
    \/ \E signing_key \in Keys : builder_sign(signing_key)
    \/ /\ stage = "Signing"
       /\ \E signature_bundle \in
                 SignatureBundles(builder.unsigned_transaction) :
              with_external_signature(signature_bundle)
    \/ transaction
    \/ send

SpecBuilder == Init /\ [][NextBuilder]_vars

(***************************************************************************)
(* A fourth specification: a caller applies the conversion and validation  *)
(* functions to values of the universe.                                    *)
(***************************************************************************)
NextCalls ==
    \/ call.fn = "None"
          /\ \E t \in CreateDIDTransactions : TryIntoDidTransaction(t)
    \/ TryIntoTransaction
    \/ call.fn = "None"
          /\ \E op \in ValidatedOperations : ValidateBasic(op)
    \/ call.fn = "None"
          /\ \E acc \in OperatedAccounts, k \in 1 .. MaxOperated :
                 ProcessOperation(acc, AddKeyOp(k))
    \/ call.fn = "None"
          /\ \E acc \in OperatedAccounts, k \in 1 .. MaxOperated :
                 ProcessOperation(acc, RevokeKeyOp(k))
    \/ call.fn = "None"
          /\ \E acc \in RenderedAccounts : RenderDocument(acc)
    \/ call.fn = "None"
          /\ \E acc \in OperatedAccounts \cup {DefaultAccount}, n \in 0 .. 1 :
                 \E first, second \in SnapshotTransactions(n) :
                     ProcessBoth(acc, first, second)

SpecCalls == Init /\ [][NextCalls]_vars

(***************************************************************************)
(* A fifth specification: a caller waits for a posted transaction while    *)
(* the node answers its polls in any way.                                  *)
(***************************************************************************)
NextPending ==
    \/ \E t \in PendingTransactions : PendingTransactionImpl_new(t)
    \/ wait
    \/ \E interval \in {1, 2} : wait_with_interval(interval)
    \/ \E response \in AccountResponses : poll(response)
    \/ Timer_sleep

SpecPending == Init /\ [][NextPending]_vars

(***************************************************************************)
(* A sixth specification: a client posts a transaction to the node and     *)
(* waits for it while other clients post theirs.  SpecNodeFair adds that   *)
(* the wait loop keeps being scheduled: a pending poll and a pending       *)
(* wake-up eventually happen.                                              *)
(***************************************************************************)
NextNode ==
    \/ \E t \in NodeTransactions : NodePost(t)
    \/ \E t \in NodeTransactions : PostAndHold(t)
    \/ NodeApply
    \/ wait
    \/ NodePoll
    \/ Timer_sleep

SpecNode == Init /\ [][NextNode]_vars

SpecNodeFair == SpecNode /\ WF_vars(NodePoll) /\ WF_vars(Timer_sleep)

(***************************************************************************)
(* Properties                                                              *)
(***************************************************************************)
\* A call of process_transaction has just returned.
Called == pc = "returned"

OpType == tx.operation.type

IsCreation == OpType \in {"CreateAccount", "CreateDID"}

\* C1: every call that returns Ok raises the nonce by exactly 1, every call
\* that returns an error leaves it unchanged, and so the nonce equals the
\* number of accepted transactions.
C1_NonceCountsAccepted ==
    /\ account.nonce = n_accepted
    /\ Called =>
          account.nonce = before.nonce + (IF result = "Ok" THEN 1 ELSE 0)

C1_Witness ==
    Called /\ result = "Ok" /\ n_accepted >= 2 /\ before.nonce = 1

\* The transactions accepted before the latest call.
LogBefore ==
    IF result = "Ok" THEN SubSeq(log, 1, Len(log) - 1) ELSE log

\* C2: no transaction is accepted twice: a transaction that was accepted
\* before is rejected with NonceError whenever it is submitted again.
C2_NoReplay ==
    Called /\ contains(LogBefore, tx) => result = "NonceError"

C2_Witness ==
    Called /\ contains(LogBefore, tx) /\ result = "NonceError"
        /\ tx.nonce + 1 < account.nonce

\* C3: a call that returns an error leaves every field of the account as it
\* was before the call.
C3_ErrorLeavesAccount ==
    Called /\ result # "Ok" => account = before

C3_Witness ==
    /\ Called
    /\ result = "KeyAlreadyExists"
    /\ Len(account.rotation_keys) >= 2
    /\ account = before

\* C4: an AddKey or RevokeKey transaction whose verifying key is not one of
\* the account's rotation_keys is rejected, also when it is validly signed
\* by that key (stated here for an account that exists and has an id).
C4_SignerInRotationKeys ==
    Called /\ OpType \in {"AddKey", "RevokeKey"}
           /\ ~is_empty(before) /\ before.did # ""
           /\ verify_signature(tx)
           /\ ~contains(before.rotation_keys, tx.vk)
        => result # "Ok"

\* C5: a transaction is accepted only if its signature verifies against its
\* verifying key over the encoding of (id, operation, nonce).
C5_AcceptedIsSigned ==
    Called /\ result = "Ok" /\ OpType # "CreateDID" => verify_signature(tx)

\* C6: an AddKey or RevokeKey transaction submitted to an empty account is
\* rejected.
C6_EmptyAccountOnlyCreation ==
    Called /\ is_empty(before) /\ ~IsCreation => result # "Ok"

\* C7: a CreateAccount or CreateDID transaction is accepted only against an
\* empty account; against an account with nonce > 0 it is rejected and the
\* account is unchanged.
C7_CreationOnlyWhenEmpty ==
    Called /\ IsCreation =>
        /\ result = "Ok" => before.nonce = 0
        /\ before.nonce > 0 => result # "Ok" /\ account = before

C7_Witness ==
    /\ Called
    /\ IsCreation
    /\ before.nonce > 0
    /\ tx.nonce = before.nonce
    /\ before.rotation_keys = <<>>
    /\ result = "AccountAlreadyExists"

\* C8: for an operation other than CreateAccount, a transaction whose id
\* differs from the account's id is rejected (stated here for an account
\* that exists and has an id, whatever the error).
C8_TransactionIdChecked ==
    Called /\ OpType # "CreateAccount" /\ ~is_empty(before)
           /\ before.did # ""
           /\ tx.id # before.did
        => result # "Ok"

\* C9: an accepted CreateDID carries the did derived from its content, and
\* that did is the id of the account it creates.
C9_DidIsDerived ==
    Called /\ OpType = "CreateDID" /\ result = "Ok" =>
        /\ tx.operation.did = derive_did(SignedPLCOp(tx.operation))
        /\ account.did = derive_did(SignedPLCOp(tx.operation))

\* C10, as claimed: a CreateAccount with a matching nonce is rejected with
\* AccountIdError when its id differs from the operation's id, and with
\* AccountKeyError when its key differs from the operation's key.
C10_Original ==
    Called /\ OpType = "CreateAccount" /\ tx.nonce = before.nonce =>
        /\ tx.id # tx.operation.id => result = "AccountIdError"
        /\ tx.vk # tx.operation.key => result = "AccountKeyError"

\* C10, amended: a CreateAccount with a matching nonce is rejected with
\* AccountIdError when its id differs from the operation's id, and with
\* AccountKeyError when the ids agree and its key differs from the
\* operation's key; every accepted CreateAccount has tx.id = op.id and
\* tx.vk = op.key.
C10_CreateAccountChecks ==
    Called /\ OpType = "CreateAccount" =>
        /\ tx.nonce = before.nonce /\ tx.id # tx.operation.id
              => result = "AccountIdError"
        /\ tx.nonce = before.nonce /\ tx.id = tx.operation.id
                /\ tx.vk # tx.operation.key
              => result = "AccountKeyError"
        /\ result = "Ok" =>
              tx.id = tx.operation.id /\ tx.vk = tx.operation.key

C10_Witness ==
    /\ Called
    /\ OpType = "CreateAccount"
    /\ tx.nonce = before.nonce
    /\ tx.id = tx.operation.id
    /\ tx.vk # tx.operation.key
    /\ result = "AccountKeyError"

\* C11: an AddKey transaction whose key is already in the account's
\* rotation_keys is rejected, and rotation_keys and nonce are unchanged.
C11_AddKeyPresentRejected ==
    Called /\ OpType = "AddKey"
           /\ contains(before.rotation_keys, tx.operation.key) =>
        /\ result # "Ok"
        /\ account.rotation_keys = before.rotation_keys
        /\ account.nonce = before.nonce

C11_Witness ==
    /\ Called
    /\ OpType = "AddKey"
    /\ tx.nonce = before.nonce
    /\ contains(before.rotation_keys, tx.operation.key)
    /\ result = "KeyAlreadyExists"
    /\ account.rotation_keys = before.rotation_keys

\* C12: a RevokeKey transaction whose key is absent from the account's
\* rotation_keys is rejected, and rotation_keys and nonce are unchanged.
C12_RevokeKeyAbsentRejected ==
    Called /\ OpType = "RevokeKey"
           /\ ~contains(before.rotation_keys, tx.operation.key) =>
        /\ result # "Ok"
        /\ account.rotation_keys = before.rotation_keys
        /\ account.nonce = before.nonce

C12_Witness ==
    /\ Called
    /\ OpType = "RevokeKey"
    /\ tx.nonce = before.nonce
    /\ before.rotation_keys # <<>>
    /\ ~contains(before.rotation_keys, tx.operation.key)
    /\ result = "KeyDoesNotExist"
    /\ account.nonce = before.nonce

\* The account that results from processing the transactions of l, in order,
\* starting from the default account.
RECURSIVE Replay(_)
Replay(l) ==
    IF l = <<>> THEN DefaultAccount
    ELSE process_transaction(Replay(SubSeq(l, 1, Len(l) - 1)),
                             l[Len(l)]).account

\* The accepted transaction before the one just processed.
LastAccepted == LogBefore[Len(LogBefore)]

\* C13: when AddKey{k} has been accepted and the next accepted transaction
\* is RevokeKey{k}, rotation_keys is afterwards the same sequence (same
\* keys, same order) as before the AddKey.
C13_AddThenRevokeRestores ==
    Called /\ result = "Ok" /\ OpType = "RevokeKey" /\ LogBefore # <<>>
           /\ LastAccepted.operation = AddKeyOp(tx.operation.key) =>
        account.rotation_keys =
            Replay(SubSeq(LogBefore, 1, Len(LogBefore) - 1)).rotation_keys

C13_Witness ==
    /\ Called /\ result = "Ok" /\ OpType = "RevokeKey" /\ LogBefore # <<>>
    /\ LastAccepted.operation = AddKeyOp(tx.operation.key)
    /\ Len(before.rotation_keys) = 3
    /\ account.rotation_keys = <<1, 1>>

\* C14: no transition leaves Active: once the account's nonce is greater
\* than 0, no call of process_transaction, accepted or rejected, makes
\* is_empty() true again.
C14_NeverEmptyAgain == [][~is_empty(account) => ~is_empty(account')]_vars

C14_Witness ==
    /\ Called /\ result = "Ok" /\ OpType = "RevokeKey"
    /\ before.nonce > 0
    /\ account.rotation_keys = <<>>
    /\ ~is_empty(account)

\* C15: the account id is immutable once set: a call made on an account
\* that has accepted a transaction (and so any call after an accepted
\* CreateAccount or CreateDID) leaves the account's id as it was.
C15_IdImmutable ==
    /\ Called /\ before.nonce > 0 => account.did = before.did
    /\ Called /\ IsCreation /\ result = "Ok" =>
          /\ before.nonce = 0
          /\ account.nonce > 0
          /\ account.did = (IF OpType = "CreateDID" THEN tx.operation.did
                            ELSE tx.operation.id)

C15_Witness ==
    /\ Called /\ IsCreation /\ tx.nonce = before.nonce
    /\ before.nonce > 0 /\ before.did = "alice" /\ before.rotation_keys = <<>>
    /\ tx.id = "bob" /\ result = "AccountAlreadyExists"
    /\ account.did = "alice"

\* C16: once an active account's rotation_keys has become empty through
\* revocations the account is inert: no later transaction is accepted and
\* the account's state does not change.
C16_InertWithoutKeys ==
    Called /\ LogBefore # <<>> /\ LastAccepted.operation.type = "RevokeKey"
           /\ ~is_empty(before) /\ before.rotation_keys = <<>> =>
        result # "Ok" /\ account = before

\* The request builder holds a signed transaction, ready to be sent.
AtSending == stage = "Sending"

Built == stage = "Signing" /\ via = "create_did"

BuiltOperation == builder.unsigned_transaction.operation

\* The operation with the detached signature sig attached.
WithSignature(op, sig) ==
    CreateDIDOp(op.did, op.verification_methods, op.rotation_keys,
                op.also_known_as, op.atproto_pds, sig)

PlcSignatures == {sign(k, <<"plc_genesis">>) : k \in Keys}

\* C18: the did that CreateDIDRequestBuilder::build places in the CreateDID
\* operation equals SignedPLCOp::derive_did of the same operation (with the
\* detached signature it is given).
C18_BuildDidIsDerived ==
    Built => \E sig \in PlcSignatures :
                BuiltOperation.did =
                    derive_did(SignedPLCOp(WithSignature(BuiltOperation, sig)))

\* The characters of the lowercase RFC4648 base32 alphabet.
LowerChars == {Rfc4648Lower[i] : i \in 1 .. Len(Rfc4648Lower)}

\* did is "did:prism:" followed by the characters chars, which are exactly
\* 24 characters of the lowercase alphabet (so none of them is "=").
WellFormedDid(did, chars) ==
    /\ Len(chars) = 24
    /\ \A i \in 1 .. Len(chars) : chars[i] \in LowerChars
    /\ did = "did:prism:" \o Concat(chars, Len(chars))
    /\ Len(did) = 34

\* C19: every identifier produced by SignedPLCOp::derive_did and every did
\* emitted by CreateDIDRequestBuilder::build is "did:prism:" followed by
\* exactly 24 characters of the lowercase base32 alphabet, without padding.
C19_DidFormat ==
    Built =>
        /\ WellFormedDid(BuiltOperation.did,
              build_did_chars(BuiltOperation.verification_methods,
                              BuiltOperation.rotation_keys,
                              BuiltOperation.also_known_as,
                              BuiltOperation.atproto_pds))
        /\ \A sig \in PlcSignatures :
              LET plc == SignedPLCOp(WithSignature(BuiltOperation, sig))
              IN  WellFormedDid(derive_did(plc),
                      SubSeq(base32_encode(Rfc4648Lower, Digest_hash(plc)),
                             1, DidLen))

\* A native transaction has been converted to the wire form and back.
RoundTripped == call.fn = "DidTransaction::try_into"

\* C22: converting a native CreateDID transaction to the interop wire
\* transaction and back yields a transaction with the same id, rotation keys
\* (same order), verification methods, aliases and PDS endpoint, also when
\* the transaction id differs from the operation's did.
C22_RoundTripPreserves ==
    RoundTripped =>
        /\ call.ret.id = call.origin.id
        /\ call.ret.operation.rotation_keys = call.origin.operation.rotation_keys
        /\ call.ret.operation.verification_methods
              = call.origin.operation.verification_methods
        /\ call.ret.operation.also_known_as = call.origin.operation.also_known_as
        /\ call.ret.operation.atproto_pds = call.origin.operation.atproto_pds

\* The transaction at the sending stage was signed in process, by sign(key).
SignedInProcess ==
    \E k \in Keys :
        builder.transaction = utx_sign(to_unsigned_tx(builder.transaction), k)

\* C23: each transaction produced by the builder pipeline and signed with
\* sign(key) verifies under the path that is authoritative for its operation
\* kind: verify_cbor_signature for CreateDID (whatever detached signature the
\* operation is given), verify_signature for the other kinds.
C23_SignedVerifiesOnItsPath ==
    AtSending /\ SignedInProcess =>
        IF builder.transaction.operation.type = "CreateDID"
        THEN \E sig \in PlcSignatures :
                verify_cbor_signature(
                    [builder.transaction EXCEPT
                        !.operation = WithSignature(@, sig)])
        ELSE verify_signature(builder.transaction)

\* C24: send() on a sending-stage builder without a bound submission
\* capability returns MissingSender and does not call post_transaction; with
\* one it calls post_transaction exactly once, with the builder's transaction.
C24_SendNeedsSender ==
    [][AtSending /\ stage' \in {"Failed", "Pending"} =>
          IF builder.prism
          THEN posted' = Append(posted, builder.transaction)
          ELSE stage' = "Failed" /\ err' = "MissingSender" /\ posted' = posted]_vars

C24_Witness ==
    /\ stage = "Failed"
    /\ err = "MissingSender"
    /\ posted = <<>>

\* add_key or revoke_key has just returned.
ModifyReturned == stage = "ModifyAccount" /\ stage' # "ModifyAccount"

\* The outcome of add_key / revoke_key on a snapshot that is refused or not.
ModifyOutcome(refused) ==
    IF refused
    THEN stage' = "Failed" /\ err' # "None" /\ builder' = NoBuilder
    ELSE /\ stage' = "Signing"
         /\ builder'.unsigned_transaction.id = builder.id
         /\ builder'.unsigned_transaction.nonce = builder.nonce
         /\ \E key \in Keys :
               \/ /\ via' = "add_key"
                  /\ builder'.unsigned_transaction.operation = AddKeyOp(key)
               \/ /\ via' = "revoke_key"
                  /\ builder'.unsigned_transaction.operation = RevokeKeyOp(key)

\* C25, as claimed: add_key and revoke_key return an error and emit nothing
\* when the snapshot's id is shorter than 3 characters or its nonce is 0;
\* otherwise they emit an unsigned transaction with the snapshot's id and
\* nonce and the operation AddKey{key} / RevokeKey{key}.
C25_Original ==
    [][ModifyReturned =>
          ModifyOutcome(chars_count(builder.id) < 3 \/ builder.nonce = 0)]_vars

\* C25, amended: the same with the id measured in bytes of its UTF-8
\* encoding (String::len), not in characters.
C25_ModifyChecksSnapshot ==
    [][ModifyReturned =>
          ModifyOutcome(str_len(builder.id) < 3 \/ builder.nonce = 0)]_vars

C25_Witness ==
    /\ stage = "Failed"
    /\ err = "InvalidNonce"
    /\ builder = NoBuilder

\* meeting_signed_challenge emitted the unsigned transaction with nonce 0,
\* the builder's id and CreateAccount{id, key}, and nothing else in it.
ChallengeEmitted ==
    /\ stage' = "Signing"
    /\ builder'.unsigned_transaction =
          UnsignedTransaction(builder.id,
              CreateAccountOp(builder.id, builder.key[1]), 0)

C27_ValidateBasicOkExactlyWhen ==
    call.fn = "Operation::validate_basic" =>
        LET op == call.arg
        IN  call.ret = "Ok" <=>
                \/ op.type = "CreateAccount" /\ op.id # ""
                \/ /\ op.type = "CreateDID"
                   /\ Len(op.rotation_keys) > 0
                   /\ Cardinality(DOMAIN op.verification_methods) <= 10
                \/ op.type \in {"AddKey", "RevokeKey"}

C27_Witness ==
    /\ call.fn = "Operation::validate_basic"
    /\ call.arg.type = "CreateDID"
    /\ Cardinality(DOMAIN call.arg.verification_methods) = 10
    /\ call.arg.rotation_keys = <<1>>
    /\ call.ret = "Ok"

\* What holds of every wait: a poll step returns Ok only with the account
\* of a response to a get_account call for the waited transaction's id whose
\* nonce is strictly greater than that transaction's; a sleep lasts the
\* interval and leads back to the same poll; wait() enters the loop with 5
\* seconds.
WaitLoopSteps ==
    /\ pending.pc = "Poll" /\ pending'.pc = "Ok" =>
          /\ pending'.requested = Some(pending.transaction.id)
          /\ pending'.response[1].ok
          /\ pending'.response[1].account # None
          /\ pending'.response[1].account[1].nonce > pending.transaction.nonce
          /\ pending'.ret = pending'.response[1].account
    /\ pending.pc = "Sleep" /\ pending' # pending =>
          /\ pending'.pc = "Poll"
          /\ pending'.slept = pending.interval
          /\ pending'.transaction = pending.transaction
          /\ pending'.interval = pending.interval
    /\ pending.pc = "Created" /\ pending' # pending /\ pending'.entry = "wait"
          => pending'.pc = "Poll" /\ pending'.interval = 5

\* C28, as claimed: the wait returns Ok(account) only when a poll for the
\* transaction's id returned an existing account with a nonce strictly
\* greater than the transaction's; after any other poll it sleeps for the
\* interval and polls again, without end; wait() is that loop with 5 seconds.
C28_Original ==
    [][/\ WaitLoopSteps
       /\ pending.pc = "Poll" /\ pending' # pending /\ pending'.pc # "Ok"
             => pending'.pc = "Sleep"]_vars

\* C28, amended: the wait returns Ok(account) only when a poll for the
\* transaction's id returned an existing account with a nonce strictly
\* greater than the transaction's; it returns the error of a poll that
\* failed; after any other poll it sleeps for the interval and polls again,
\* without end; wait() is that loop with 5 seconds.
C28_WaitLoop ==
    [][/\ WaitLoopSteps
       /\ pending.pc = "Poll" /\ pending' # pending =>
             /\ pending'.pc = "Err" <=> ~pending'.response[1].ok
             /\ pending'.pc \notin {"Ok", "Err"} => pending'.pc = "Sleep"]_vars

C28_Witness ==
    /\ pending.pc = "Ok"
    /\ pending.entry = "wait"
    /\ pending.slept = 5
    /\ pending.transaction.nonce = 1
    /\ pending.ret = Some([DefaultAccount EXCEPT !.did = "alice", !.nonce = 2])

\* C29: an accepted CreateAccount{id, key} on a default account leaves an
\* account with the operation's id, rotation_keys exactly [key], nonce 1 and
\* empty verification_methods, also_known_as and services.
C29_CreateAccountResult ==
    Called /\ result = "Ok" /\ OpType = "CreateAccount"
           /\ before = DefaultAccount =>
        /\ account.did = tx.operation.id
        /\ account.rotation_keys = <<tx.operation.key>>
        /\ account.nonce = 1
        /\ DOMAIN account.verification_methods = {}
        /\ account.also_known_as = <<>>
        /\ DOMAIN account.services = {}

C29_Witness ==
    /\ Called /\ result = "Ok" /\ OpType = "CreateAccount"
    /\ before = DefaultAccount
    /\ tx.operation = CreateAccountOp("alice", 2)
    /\ account.rotation_keys = <<2>>

\* C30: an accepted CreateDID on a default account leaves an account whose
\* id, also_known_as, rotation_keys and verification_methods are the
\* operation's, and whose services hold exactly the entry atproto_pds, of
\* type AtprotoPersonalDataServer with the operation's PDS endpoint.
C30_CreateDIDResult ==
    Called /\ result = "Ok" /\ OpType = "CreateDID"
           /\ before = DefaultAccount =>
        /\ account.did = tx.operation.did
        /\ account.also_known_as = tx.operation.also_known_as
        /\ account.rotation_keys = tx.operation.rotation_keys
        /\ account.verification_methods = tx.operation.verification_methods
        /\ DOMAIN account.services = {"atproto_pds"}
        /\ account.services["atproto_pds"] =
              [service_type |-> "AtprotoPersonalDataServer",
               endpoint |-> tx.operation.atproto_pds]

C30_Witness ==
    /\ Called /\ result = "Ok" /\ OpType = "CreateDID"
    /\ before = DefaultAccount
    /\ account.did = ChosenDid
    /\ account.rotation_keys = <<1, 2>>
    /\ account.also_known_as = <<"at://alice.test">>
    /\ "atproto" \in DOMAIN account.verification_methods

\* C31: after an accepted RevokeKey{k}, k occurs nowhere in rotation_keys,
\* however often it occurred before, and the other keys are all kept in
\* their order; after an accepted AddKey{k}, rotation_keys is the previous
\* list with k appended at the end.
C31_RevokeRemovesAllAddAppends ==
    call.fn = "Account::process_operation" /\ call.ret.result = "Ok" =>
        LET k == call.arg.key
            old == call.self.rotation_keys
            new == call.ret.account.rotation_keys
            kept == {i \in 1 .. Len(old) : old[i] # k}
        IN  /\ call.arg.type = "RevokeKey" =>
                /\ \A i \in 1 .. Len(new) : new[i] # k
                /\ Len(new) = Cardinality(kept)
                /\ \A i \in kept :
                      new[Cardinality({j \in kept : j <= i})] = old[i]
            /\ call.arg.type = "AddKey" =>
                /\ Len(new) = Len(old) + 1
                /\ new[Len(new)] = k
                /\ \A i \in 1 .. Len(old) : new[i] = old[i]

\* A key that stood twice among three was revoked and the third one stays;
\* elsewhere a key between two others was revoked and they keep their order.
C31_Witness ==
    /\ call.fn = "Account::process_operation" /\ call.ret.result = "Ok"
    /\ call.arg = RevokeKeyOp(1)
    /\ call.self.rotation_keys = <<3, 1, 2>>
    /\ call.ret.account.rotation_keys = <<3, 2>>

\* C32: whenever the wait returns Ok(account), the submitted transaction
\* itself has been applied to the account, also when other clients post
\* transactions with the same nonce for the same account.
C32_OkConfirmsSubmitted ==
    pending.pc = "Ok" =>
        \E i \in 1 .. Len(log) : log[i] = pending.transaction

\* C33: if the wait has been entered, get_account never fails and the
\* account the node serves under the transaction's id comes to have a nonce
\* greater than the transaction's, then the wait eventually returns Ok,
\* provided the loop keeps being scheduled.
C33_WaitEventuallyOk ==
    (/\ [](pending.pc # "Err")
     /\ <>(/\ pending.pc \in {"Poll", "Sleep"}
           /\ node_get_account(pending.transaction.id).account # None
           /\ node_get_account(pending.transaction.id).account[1].nonce
                 > pending.transaction.nonce))
        => <>(pending.pc = "Ok")

\* The wait returned Ok after it had slept, the transaction being applied.
C33_Witness ==
    /\ pending.pc = "Ok"
    /\ pending.slept > 0
    /\ \E i \in 1 .. Len(log) : log[i] = pending.transaction
    /\ pending.ret = Some(account)

\* C34: the first get_account call that returns an error ends the wait with
\* that error; no sleep and no get_account call follows it.
C34_NoRetryOnFailure ==
    [][/\ pending.pc = "Poll" /\ pending' # pending
          /\ ~pending'.response[1].ok =>
             /\ pending'.pc = "Err"
             /\ pending'.ret = Some(pending'.response[1].error)
             /\ pending'.slept = pending.slept
       /\ pending.pc = "Err" => pending' = pending]_vars

\* A poll failed after the loop had polled in vain and slept.
C34_Witness ==
    /\ pending.pc = "Err"
    /\ pending.slept > 0
    /\ pending.ret = Some("RequestFailed")
    /\ pending.requested = Some(pending.transaction.id)

\* C35: the document rendered from an account has the account's id and
\* aliases, exactly one verification-method entry per named key, with id
\* "<account-id>#<name>", type Multikey and the account id as controller, and
\* exactly one service entry per named service, with id "#<name>" and the
\* service's type and endpoint.
C35_DocumentOfAccount ==
    call.fn = "DidDocument::from" =>
        LET acc == call.self
            doc == call.ret
            vm == doc.verification_method
            sv == doc.service
        IN  /\ doc.id = acc.did
            /\ doc.also_known_as = acc.also_known_as
            /\ Len(vm) = Cardinality(DOMAIN acc.verification_methods)
            /\ \A name \in DOMAIN acc.verification_methods :
                  \E i \in 1 .. Len(vm) :
                      /\ vm[i].id = acc.did \o "#" \o name
                      /\ vm[i].method_type = "Multikey"
                      /\ vm[i].controller = acc.did
                      /\ \A j \in 1 .. Len(vm) : vm[j].id = vm[i].id => j = i
            /\ Len(sv) = Cardinality(DOMAIN acc.services)
            /\ \A name \in DOMAIN acc.services :
                  \E i \in 1 .. Len(sv) :
                      /\ sv[i].id = "#" \o name
                      /\ sv[i].service_type = acc.services[name].service_type
                      /\ sv[i].service_endpoint = acc.services[name].endpoint
                      /\ \A j \in 1 .. Len(sv) : sv[j].id = sv[i].id => j = i

\* A document of an account with two named keys, an alias and the PDS.
C35_Witness ==
    /\ call.fn = "DidDocument::from"
    /\ Len(call.ret.verification_method) = 2
    /\ call.ret.verification_method[1].id = "did:prism:chosen#signing"
    /\ Len(call.ret.service) = 1
    /\ call.ret.also_known_as = <<"at://alice.test">>

\* C36: the unsigned transaction CreateDIDRequestBuilder::build emits has
\* the did of the CreateDID operation it carries as its id, and nonce 0.
C36_BuiltTargetsDerivedDid ==
    Built =>
        /\ builder.unsigned_transaction.id = BuiltOperation.did
        /\ builder.unsigned_transaction.nonce = 0

\* C37, as claimed: of two transactions with the same nonce applied to one
\* account in either order, at most one is accepted and the other one is
\* rejected with NonceError.
C37_Original ==
    call.fn = "Account::process_transaction twice" =>
        /\ ~(call.ret[1] = "Ok" /\ call.ret[2] = "Ok")
        /\ call.ret[1] = "Ok" => call.ret[2] = "NonceError"
        /\ call.ret[2] = "Ok" => call.ret[1] = "NonceError"

\* C37, amended: of two transactions with the same nonce applied to one
\* account in either order, at most one is accepted; when the one applied
\* first is accepted, the other is rejected with NonceError.
C37_SameNonceOneAccepted ==
    call.fn = "Account::process_transaction twice" =>
        /\ ~(call.ret[1] = "Ok" /\ call.ret[2] = "Ok")
        /\ call.ret[1] = "Ok" => call.ret[2] = "NonceError"

\* Two additions of different keys made from the snapshot with nonce 1.
C37_Witness ==
    /\ call.fn = "Account::process_transaction twice"
    /\ call.self.rotation_keys = <<3>>
    /\ call.arg[1].operation = AddKeyOp(1)
    /\ call.arg[2].operation = AddKeyOp(2)
    /\ call.ret = <<"Ok", "NonceError">>

\* C38: in every state reachable from the default account through
\* process_transaction calls, an account with nonce greater than 0 has a
\* non-empty id.
C38_ActiveAccountHasId ==
    account.nonce > 0 => account.did # ""

\* C39, as claimed: in every state reachable from the default account
\* through process_transaction calls, rotation_keys contains no key more
\* than once.
C39_Original ==
    \A i, j \in 1 .. Len(account.rotation_keys) :
        account.rotation_keys[i] = account.rotation_keys[j] => i = j

\* C39, amended: rotation_keys contains a key more than once only in an
\* account created by a CreateDID operation whose rotation_keys named a key
\* more than once.
C39_RepeatsOnlyFromCreateDID ==
    (\E i, j \in 1 .. Len(account.rotation_keys) :
        i < j /\ account.rotation_keys[i] = account.rotation_keys[j]) =>
        /\ log # <<>>
        /\ log[1].operation.type = "CreateDID"
        /\ \E i, j \in 1 .. Len(log[1].operation.rotation_keys) :
              /\ i < j
              /\ log[1].operation.rotation_keys[i]
                    = log[1].operation.rotation_keys[j]

\* A key was added to an account whose CreateDID named another key twice.
C39_Witness ==
    /\ account.rotation_keys = <<1, 1, 2>>
    /\ Len(log) = 2
    /\ log[2].operation = AddKeyOp(2)

\* C40: in every state reachable from the default account through
\* process_transaction calls, an account with nonce 0 is the default
\* account: empty id, no rotation keys, no verification methods, no aliases
\* and no services.
C40_NonceZeroIsDefault ==
    account.nonce = 0 =>
        /\ account.did = ""
        /\ account.rotation_keys = <<>>
        /\ DOMAIN account.verification_methods = {}
        /\ account.also_known_as = <<>>
        /\ DOMAIN account.services = {}

\* A transaction was refused by the operation's own test on the account
\* with nonce 0, which it left as it was.
C40_Witness ==
    /\ Called /\ result = "KeyDoesNotExist"
    /\ tx.nonce = 0
    /\ account.nonce = 0
    /\ account = before

====
